---- MODULE Spec2Model ----
(***************************************************************************)
(* Behavioural model of the odoo-project-tools helpers:                    *)
(*   odoo_tools/tasks/common.py  (cd, root_path, check_git_diff, tempdir,  *)
(*                                make_dir, get_migration_file_modules,    *)
(*                                cookiecutter_context, has_exec)          *)
(*   odoo_tools/release.py       (make_bumpversion_cmd, parse_new_version) *)
(* Every helper is modelled by its own group of variables and its own      *)
(* specification; the variables of the other helpers stay at rest.         *)
(***************************************************************************)
EXTENDS Integers, Sequences, FiniteSets, TLC

VARIABLES
    \* cd()
    cd_pc, cwd, prev, dirs, path, cd_exc,
    \* root_path()
    rp_pc, rp_cwd, current_dir, max_depth, marker_dirs, rp_ret, rp_exit, listed,
    \* check_git_diff()
    gd_pc, direct_abort, dirty_unstaged, dirty_staged, stdin, prompts, gd_exit, ran,
    \* make_bumpversion_cmd()
    bv_pc, rel_type, new_version, dry_run, cmd, bv_ret,
    \* get_migration_file_modules()
    mf_pc, content, version, modules, mf_exc,
    \* cookiecutter_context()
    cc_file, cc_cache, cc_reads, cc_calls, cc_ret, cc_first, cc_heap,
    \* make_dir()
    md_fs, path_dir, md_pc, md_results,
    \* tempdir()
    td_pc, td_fs, td_body_exc, td_raised, td_rmtree,
    \* has_exec()
    he_pc, he_spawn, he_devnull, he_os_errno, he_err, he_ret, he_raised,
    \* parse_new_version()
    pn_pc, cfg_content, ini_content, config, pn_ret, pn_exc

vars_cd == <<cd_pc, cwd, prev, dirs, path, cd_exc>>
vars_rp == <<rp_pc, rp_cwd, current_dir, max_depth, marker_dirs, rp_ret, rp_exit, listed>>
vars_gd == <<gd_pc, direct_abort, dirty_unstaged, dirty_staged, stdin, prompts, gd_exit, ran>>
vars_bv == <<bv_pc, rel_type, new_version, dry_run, cmd, bv_ret>>
vars_mf == <<mf_pc, content, version, modules, mf_exc>>
vars_cc == <<cc_file, cc_cache, cc_reads, cc_calls, cc_ret, cc_first, cc_heap>>
vars_md == <<md_fs, path_dir, md_pc, md_results>>
vars_td == <<td_pc, td_fs, td_body_exc, td_raised, td_rmtree>>
vars_he == <<he_pc, he_spawn, he_devnull, he_os_errno, he_err, he_ret, he_raised>>
vars_pn == <<pn_pc, cfg_content, ini_content, config, pn_ret, pn_exc>>

vars == <<vars_cd, vars_rp, vars_gd, vars_bv, vars_mf, vars_cc, vars_md, vars_td,
          vars_he, vars_pn>>

\* The value None of Python, and the marker of "no exception pending".
None == "None"
NoExc == "none"

(***************************************************************************)
(* Rest states: the helper is not being run.                               *)
(***************************************************************************)
Idle_cd ==
    /\ cd_pc = "idle" /\ cwd = "/" /\ prev = None /\ dirs = {"/"}
    /\ path = "/" /\ cd_exc = NoExc

Idle_rp ==
    /\ rp_pc = "idle" /\ rp_cwd = 0 /\ current_dir = 0 /\ max_depth = 0
    /\ marker_dirs = {} /\ rp_ret = -1 /\ rp_exit = 0 /\ listed = <<>>

Idle_gd ==
    /\ gd_pc = "idle" /\ direct_abort = FALSE /\ dirty_unstaged = FALSE
    /\ dirty_staged = FALSE /\ stdin = "" /\ prompts = 0 /\ gd_exit = 0
    /\ ran = <<>>

Idle_bv ==
    /\ bv_pc = "idle" /\ rel_type = "patch"
    /\ new_version = [none |-> TRUE, text |-> <<>>]
    /\ dry_run = FALSE /\ cmd = <<>> /\ bv_ret = <<>>

Idle_mf ==
    /\ mf_pc = "idle" /\ content = <<>> /\ version = 0 /\ modules = {}
    /\ mf_exc = NoExc

Idle_cc ==
    /\ cc_file = None /\ cc_cache = 0 /\ cc_reads = 0 /\ cc_calls = 0
    /\ cc_ret = 0 /\ cc_first = 0 /\ cc_heap = <<>>

Idle_md ==
    /\ md_fs = <<>> /\ path_dir = 0 /\ md_pc = "idle" /\ md_results = <<>>

Idle_td ==
    /\ td_pc = "idle"
    /\ td_fs = [kind |-> "absent", entries |-> {}, locked |-> FALSE]
    /\ td_body_exc = NoExc /\ td_raised = NoExc /\ td_rmtree = <<>>

Idle_he ==
    /\ he_pc = "idle" /\ he_spawn = "ok" /\ he_devnull = "ok"
    /\ he_os_errno = FALSE /\ he_err = NoExc /\ he_ret = None
    /\ he_raised = NoExc

Idle_pn ==
    /\ pn_pc = "idle" /\ cfg_content = <<>> /\ ini_content = <<>>
    /\ config = [sects |-> {}, opts |-> {}, cur |-> "", err |-> NoExc]
    /\ pn_ret = None /\ pn_exc = NoExc

(***************************************************************************)
(* cd(path): scoped change of the working directory (common.py 94-101).    *)
(***************************************************************************)
Home == "/home/user"
AllDirs == {"/", "/srv/project", "/tmp/work", Home}
Paths == AllDirs \cup {"~", "/nonexistent"}

\* os.path.expanduser: a leading "~" is replaced by the home directory.
expanduser(p) == IF p = "~" THEN Home ELSE p

Others_cd == <<vars_rp, vars_gd, vars_bv, vars_mf, vars_cc, vars_md, vars_td,
               vars_he, vars_pn>>

Init_cd ==
    /\ cd_pc = "call"
    /\ dirs = AllDirs
    /\ cwd \in AllDirs
    /\ path \in Paths
    /\ prev = None
    /\ cd_exc = NoExc
    /\ Idle_rp /\ Idle_gd /\ Idle_bv /\ Idle_mf /\ Idle_cc /\ Idle_md
    /\ Idle_td /\ Idle_he /\ Idle_pn

\* prev = os.getcwd(); os.chdir(os.path.expanduser(path))
\* os.chdir raises when the target is not an existing directory; the error
\* is raised before the try block is entered.
CdEnter ==
    /\ cd_pc = "call"
    /\ prev' = cwd
    /\ IF expanduser(path) \in dirs
         THEN /\ cwd' = expanduser(path)
              /\ cd_pc' = "body"
              /\ cd_exc' = NoExc
         ELSE /\ cwd' = cwd
              /\ cd_pc' = "raised_on_entry"
              /\ cd_exc' = "FileNotFoundError"
    /\ UNCHANGED <<dirs, path>>
    /\ UNCHANGED Others_cd

\* The body of the with-block is arbitrary code: it may change directory,
\* remove or create directories, and ends by returning or raising.
CdBodyChdir ==
    /\ cd_pc = "body"
    /\ \E d \in dirs : cwd' = d
    /\ UNCHANGED <<cd_pc, prev, dirs, path, cd_exc>>
    /\ UNCHANGED Others_cd

CdBodyRmdir ==
    /\ cd_pc = "body"
    /\ \E d \in dirs \ {"/"} : dirs' = dirs \ {d}
    /\ UNCHANGED <<cd_pc, cwd, prev, path, cd_exc>>
    /\ UNCHANGED Others_cd

CdBodyMkdir ==
    /\ cd_pc = "body"
    /\ \E d \in AllDirs \ dirs : dirs' = dirs \cup {d}
    /\ UNCHANGED <<cd_pc, cwd, prev, path, cd_exc>>
    /\ UNCHANGED Others_cd

CdBodyReturn ==
    /\ cd_pc = "body"
    /\ cd_pc' = "finally"
    /\ cd_exc' = NoExc
    /\ UNCHANGED <<cwd, prev, dirs, path>>
    /\ UNCHANGED Others_cd

CdBodyRaise ==
    /\ cd_pc = "body"
    /\ cd_pc' = "finally"
    /\ cd_exc' = "BodyError"
    /\ UNCHANGED <<cwd, prev, dirs, path>>
    /\ UNCHANGED Others_cd

CdFinally_NoRestore ==
    /\ cd_pc = "finally"
    /\ cd_pc' = "exited"
    /\ UNCHANGED <<cwd, cd_exc, prev, dirs, path>>
    /\ UNCHANGED Others_cd

\* finally: os.chdir(prev).  A failing chdir raises out of the finally block
\* and replaces the pending exception.
CdFinally ==
    /\ cd_pc = "finally"
    /\ cd_pc' = "exited"
    /\ IF prev \in dirs
         THEN /\ cwd' = prev
              /\ cd_exc' = cd_exc
         ELSE /\ cwd' = cwd
              /\ cd_exc' = "FileNotFoundError"
    /\ UNCHANGED <<prev, dirs, path>>
    /\ UNCHANGED Others_cd

Next_cd ==
    \/ CdEnter
    \/ CdBodyChdir
    \/ CdBodyRmdir
    \/ CdBodyMkdir
    \/ CdBodyReturn
    \/ CdBodyRaise
    \/ CdFinally

Spec_cd == Init_cd /\ [][Next_cd]_vars

\* C1 (as stated): once the scope has exited, normally or by an error, the
\* working directory equals the directory recorded before entry, for every
\* body; and a failing change to the target leaves the directory as it was.
CdAlwaysRestored ==
    /\ cd_pc = "exited" => cwd = prev
    /\ cd_pc = "raised_on_entry" => cwd = prev

\* C1 (amended): once the scope has exited, the working directory equals the
\* recorded directory provided that directory still exists at exit; when it
\* does not, the restoring chdir raises and the directory stays where the
\* body left it.  A failing change to the target leaves the directory as it
\* was.
CdRestoredIfPrevExists ==
    /\ (cd_pc = "exited" /\ prev \in dirs) =>
           (cwd = prev /\ cd_exc \in {NoExc, "BodyError"})
    /\ (cd_pc = "exited" /\ prev \notin dirs) => cd_exc = "FileNotFoundError"
    /\ cd_pc = "raised_on_entry" => (cwd = prev /\ prev \in AllDirs)

CdWitness ==
    /\ cd_pc = "exited"
    /\ cd_exc = "BodyError"
    /\ prev \in dirs
    /\ expanduser(path) # prev
    /\ expanduser(path) \notin dirs
    /\ cwd = prev

(***************************************************************************)
(* root_path(): search of the project marker (common.py 28-44).            *)
(* The directories that matter are the working directory and its           *)
(* ancestors, a chain; a directory is named by its depth below the         *)
(* filesystem root (0 is "/").                                             *)
(***************************************************************************)
MaxTreeDepth == 6
RootPathMaxDepth == 5

\* os.path.dirname: the parent, and the root is its own parent.
dirname(d) == IF d = 0 THEN 0 ELSE d - 1

Others_rp == <<vars_cd, vars_gd, vars_bv, vars_mf, vars_cc, vars_md, vars_td,
               vars_he, vars_pn>>

Init_rp ==
    /\ rp_pc = "call"
    /\ rp_cwd \in 0..MaxTreeDepth
    /\ marker_dirs \in SUBSET (0..MaxTreeDepth)
    /\ \A d \in marker_dirs : d <= rp_cwd
    /\ current_dir = 0
    /\ max_depth = 0
    /\ rp_ret = -1
    /\ rp_exit = 0
    /\ listed = <<>>
    /\ Idle_cd /\ Idle_gd /\ Idle_bv /\ Idle_mf /\ Idle_cc /\ Idle_md
    /\ Idle_td /\ Idle_he /\ Idle_pn

\* current_dir = os.getcwd(); max_depth = 5
RootPathStart ==
    /\ rp_pc = "call"
    /\ current_dir' = rp_cwd
    /\ max_depth' = RootPathMaxDepth
    /\ rp_pc' = "loop"
    /\ UNCHANGED <<rp_cwd, marker_dirs, rp_ret, rp_exit, listed>>
    /\ UNCHANGED Others_rp

RootPathIter_NoDecrement ==
    /\ rp_pc = "loop"
    /\ max_depth > 0
    /\ listed' = Append(listed, current_dir)
    /\ IF current_dir \in marker_dirs
         THEN /\ rp_ret' = current_dir
              /\ rp_pc' = "returned"
              /\ UNCHANGED <<current_dir, max_depth>>
         ELSE IF current_dir = dirname(current_dir)
                THEN /\ rp_pc' = "exit_msg"
                     /\ UNCHANGED <<current_dir, max_depth, rp_ret>>
                ELSE /\ current_dir' = dirname(current_dir)
                     /\ UNCHANGED <<max_depth, rp_pc, rp_ret>>
    /\ UNCHANGED <<rp_cwd, marker_dirs, rp_exit>>
    /\ UNCHANGED Others_rp

\* One iteration of "while max_depth > 0": list the directory, return it when
\* the marker is in the listing, break at the filesystem root, else go up.
RootPathIter ==
    /\ rp_pc = "loop"
    /\ max_depth > 0
    /\ listed' = Append(listed, current_dir)
    /\ IF current_dir \in marker_dirs
         THEN /\ rp_ret' = current_dir
              /\ rp_pc' = "returned"
              /\ UNCHANGED <<current_dir, max_depth>>
         ELSE IF current_dir = dirname(current_dir)
                THEN /\ rp_pc' = "exit_msg"
                     /\ UNCHANGED <<current_dir, max_depth, rp_ret>>
                ELSE /\ current_dir' = dirname(current_dir)
                     /\ max_depth' = max_depth - 1
                     /\ UNCHANGED <<rp_pc, rp_ret>>
    /\ UNCHANGED <<rp_cwd, marker_dirs, rp_exit>>
    /\ UNCHANGED Others_rp

\* The loop condition fails: the depth budget is used up.
RootPathLoopEnd ==
    /\ rp_pc = "loop"
    /\ max_depth = 0
    /\ rp_pc' = "exit_msg"
    /\ UNCHANGED <<rp_cwd, current_dir, max_depth, marker_dirs, rp_ret, rp_exit, listed>>
    /\ UNCHANGED Others_rp

\* exit_msg(message): print(message); raise exceptions.Exit(1)
RootPathExitMsg ==
    /\ rp_pc = "exit_msg"
    /\ rp_exit' = 1
    /\ rp_pc' = "exited"
    /\ UNCHANGED <<rp_cwd, current_dir, max_depth, marker_dirs, rp_ret, listed>>
    /\ UNCHANGED Others_rp

Next_rp ==
    \/ RootPathStart
    \/ RootPathIter
    \/ RootPathLoopEnd
    \/ RootPathExitMsg

\* The program is sequential: a call that can take a step takes it.
Spec_rp == Init_rp /\ [][Next_rp]_vars /\ WF_vars(Next_rp)

\* The working directory and its first four ancestors.
RootPathWindow == {d \in 0..rp_cwd : rp_cwd - d < 5}

RootPathDone == rp_pc \in {"returned", "exited"}

RootPathSafe ==
    /\ Len(listed) <= 5
    /\ \A i \in 1..Len(listed) : listed[i] = rp_cwd - (i - 1)
    /\ rp_pc = "returned" =>
          /\ rp_ret \in marker_dirs \cap RootPathWindow
          /\ \A d \in RootPathWindow : d > rp_ret => d \notin marker_dirs
          /\ rp_exit = 0
    /\ rp_pc = "exited" =>
          /\ marker_dirs \cap RootPathWindow = {}
          /\ rp_ret = -1
          /\ rp_exit = 1

\* C2: root_path examines the working directory and then its parents, at most
\* 5 directories in all, and returns the nearest of them that holds the
\* marker; when none of them does, or the root is reached, it returns nothing
\* and ends with exit status 1; and the loop always terminates.
RootPathCorrect == []RootPathSafe /\ <>RootPathDone

RootPathWitness ==
    /\ rp_pc = "exited"
    /\ Len(listed) = 5
    /\ (rp_cwd - 5) \in marker_dirs

(***************************************************************************)
(* check_git_diff(ctx, direct_abort) with ask_or_abort / ask_confirmation  *)
(* (common.py 110-131).                                                    *)
(***************************************************************************)
EOF == "<EOF>"
Answers == {"y", "Y", "yes", "n", "N", "no", "Yes", "YES", "", " y", EOF}

ask_confirmation_AnyCase(r) == r \in {"y", "Y", "yes", "Yes", "YES"}

\* return r in ("y", "Y", "yes")
ask_confirmation(r) == r \in {"y", "Y", "yes"}

Others_gd == <<vars_cd, vars_rp, vars_bv, vars_mf, vars_cc, vars_md, vars_td,
               vars_he, vars_pn>>

Init_gd ==
    /\ gd_pc = "call"
    /\ direct_abort \in BOOLEAN
    /\ dirty_unstaged \in BOOLEAN
    /\ dirty_staged \in BOOLEAN
    /\ stdin \in Answers
    /\ prompts = 0
    /\ gd_exit = 0
    /\ ran = <<>>
    /\ Idle_cd /\ Idle_rp /\ Idle_bv /\ Idle_mf /\ Idle_cc /\ Idle_md
    /\ Idle_td /\ Idle_he /\ Idle_pn

\* ctx.run("git diff --quiet --exit-code"): a non-zero exit raises Failure.
GdRunUnstaged ==
    /\ gd_pc = "call"
    /\ ran' = Append(ran, "git diff --quiet --exit-code")
    /\ gd_pc' = IF dirty_unstaged THEN "except" ELSE "staged"
    /\ UNCHANGED <<direct_abort, dirty_unstaged, dirty_staged, stdin, prompts, gd_exit>>
    /\ UNCHANGED Others_gd

\* ctx.run("git diff --cached --quiet --exit-code")
GdRunStaged ==
    /\ gd_pc = "staged"
    /\ ran' = Append(ran, "git diff --cached --quiet --exit-code")
    /\ gd_pc' = IF dirty_staged THEN "except" ELSE "returned"
    /\ UNCHANGED <<direct_abort, dirty_unstaged, dirty_staged, stdin, prompts, gd_exit>>
    /\ UNCHANGED Others_gd

\* except exceptions.Failure: if direct_abort: exit_msg(...)
GdExcept ==
    /\ gd_pc = "except"
    /\ IF direct_abort
         THEN /\ gd_exit' = 1
              /\ gd_pc' = "aborted"
         ELSE /\ gd_exit' = gd_exit
              /\ gd_pc' = "ask"
    /\ UNCHANGED <<direct_abort, dirty_unstaged, dirty_staged, stdin, prompts, ran>>
    /\ UNCHANGED Others_gd

\* ask_or_abort: r = input(...); input raises EOFError at end of input;
\* if not ask_confirmation(...): exit_msg("Aborted")
GdAskOrAbort ==
    /\ gd_pc = "ask"
    /\ prompts' = prompts + 1
    /\ IF stdin = EOF
         THEN /\ gd_pc' = "raised"
              /\ gd_exit' = gd_exit
         ELSE IF ask_confirmation(stdin)
                THEN /\ gd_pc' = "returned"
                     /\ gd_exit' = gd_exit
                ELSE /\ gd_pc' = "aborted"
                     /\ gd_exit' = 1
    /\ UNCHANGED <<direct_abort, dirty_unstaged, dirty_staged, stdin, ran>>
    /\ UNCHANGED Others_gd

Next_gd ==
    \/ GdRunUnstaged
    \/ GdRunStaged
    \/ GdExcept
    \/ GdAskOrAbort

Spec_gd == Init_gd /\ [][Next_gd]_vars

GdDirty == dirty_unstaged \/ dirty_staged
GdYes == {"y", "Y", "yes"}

\* C3: when either diff check reports differences, check_git_diff aborts at
\* once with exit status 1 and without reading standard input if direct_abort
\* is true, and otherwise prompts exactly once, returning normally iff the
\* answer is y, Y or yes and aborting with exit status 1 on any other answer;
\* when neither reports differences it returns normally without prompting.
GdCorrect ==
    /\ prompts <= 1
    /\ direct_abort => prompts = 0
    /\ ~GdDirty => (prompts = 0 /\ gd_pc \in {"call", "staged", "returned"})
    /\ gd_pc = "returned" =>
          /\ gd_exit = 0
          /\ \/ ~GdDirty /\ prompts = 0
             \/ GdDirty /\ ~direct_abort /\ prompts = 1 /\ stdin \in GdYes
    /\ gd_pc = "aborted" =>
          /\ gd_exit = 1
          /\ GdDirty
          /\ \/ direct_abort /\ prompts = 0
             \/ ~direct_abort /\ prompts = 1 /\ stdin \notin GdYes /\ stdin # EOF
    /\ gd_pc = "raised" => (stdin = EOF /\ GdDirty /\ ~direct_abort)

GdWitness ==
    /\ gd_pc = "aborted"
    /\ ~dirty_unstaged
    /\ dirty_staged
    /\ ~direct_abort
    /\ stdin = "Yes"
    /\ prompts = 1
    /\ Len(ran) = 2

(***************************************************************************)
(* make_bumpversion_cmd(rel_type, new_version, dry_run) (release.py 26-33) *)
(* A Python string is modelled by the sequence of its space-separated      *)
(* tokens, as str.split(" ") gives them: the empty string is <<>> and      *)
(* contributes one empty token when it is joined or formatted in.          *)
(***************************************************************************)
RelTypes == {"major", "minor", "patch"}

\* new_version: None, or a string.
NoVersion == [none |-> TRUE, text |-> <<>>]
Str(t) == [none |-> FALSE, text |-> t]
Versions ==
    {NoVersion, Str(<<>>), Str(<<"1.2.3">>), Str(<<"14.0.2.0.0">>),
     Str(<<"1.2.3", "rc1">>), Str(<<"--dry-run", "--list">>)}

Range(s) == {s[i] : i \in 1..Len(s)}

\* The tokens a string contributes to a space-joined text.
PieceTokens(t) == IF t = <<>> THEN <<"">> ELSE t

RECURSIVE Join(_)
\* " ".join(cmd)
Join(pieces) ==
    IF pieces = <<>> THEN <<>>
    ELSE PieceTokens(Head(pieces)) \o Join(Tail(pieces))

\* s in text, for whole tokens.
Contains(text, s) ==
    \E i \in 0..(Len(text) - Len(s)) :
        \A j \in 1..Len(s) : text[i + j] = s[j]

IsNotNone(v) == ~v.none

\* "if new_version:": None and the empty string are both false.
Truthy(v) == ~v.none /\ v.text # <<>>

\* f"--new-version {new_version}"
FormatNewVersion(v) == <<"--new-version">> \o PieceTokens(v.text)

Others_bv == <<vars_cd, vars_rp, vars_gd, vars_mf, vars_cc, vars_md, vars_td,
               vars_he, vars_pn>>

Init_bv ==
    /\ bv_pc = "call"
    /\ rel_type \in RelTypes
    /\ new_version \in Versions
    /\ dry_run \in BOOLEAN
    /\ cmd = <<>>
    /\ bv_ret = <<>>
    /\ Idle_cd /\ Idle_rp /\ Idle_gd /\ Idle_mf /\ Idle_cc /\ Idle_md
    /\ Idle_td /\ Idle_he /\ Idle_pn

\* cmd = ["bumpversion"]
BvStart ==
    /\ bv_pc = "call"
    /\ cmd' = << <<"bumpversion">> >>
    /\ bv_pc' = "new_version"
    /\ UNCHANGED <<rel_type, new_version, dry_run, bv_ret>>
    /\ UNCHANGED Others_bv

\* if new_version: cmd.append(f"--new-version {new_version}")
BvNewVersion ==
    /\ bv_pc = "new_version"
    /\ cmd' = IF Truthy(new_version)
                THEN Append(cmd, FormatNewVersion(new_version))
                ELSE cmd
    /\ bv_pc' = "dry_run"
    /\ UNCHANGED <<rel_type, new_version, dry_run, bv_ret>>
    /\ UNCHANGED Others_bv

\* if dry_run: cmd.append("--dry-run --list")
BvDryRun ==
    /\ bv_pc = "dry_run"
    /\ cmd' = IF dry_run THEN Append(cmd, <<"--dry-run", "--list">>) ELSE cmd
    /\ bv_pc' = "rel_type"
    /\ UNCHANGED <<rel_type, new_version, dry_run, bv_ret>>
    /\ UNCHANGED Others_bv

\* cmd.append(rel_type)
BvRelType ==
    /\ bv_pc = "rel_type"
    /\ cmd' = Append(cmd, <<rel_type>>)
    /\ bv_pc' = "join"
    /\ UNCHANGED <<rel_type, new_version, dry_run, bv_ret>>
    /\ UNCHANGED Others_bv

\* return " ".join(cmd)
BvReturn ==
    /\ bv_pc = "join"
    /\ bv_ret' = Join(cmd)
    /\ bv_pc' = "returned"
    /\ UNCHANGED <<rel_type, new_version, dry_run, cmd>>
    /\ UNCHANGED Others_bv

Next_bv ==
    \/ BvStart
    \/ BvNewVersion
    \/ BvDryRun
    \/ BvRelType
    \/ BvReturn

Spec_bv == Init_bv /\ [][Next_bv]_vars

DryRunFlags == <<"--dry-run", "--list">>

\* C4 (as stated): the returned string ends with rel_type as its last token,
\* contains "--new-version <v>" iff a version was supplied, and contains
\* "--dry-run --list" iff dry-run was requested, for any optional version.
BvAsStated ==
    bv_pc = "returned" =>
        /\ bv_ret # <<>> /\ bv_ret[Len(bv_ret)] = rel_type
        /\ Contains(bv_ret, FormatNewVersion(new_version)) <=> ~new_version.none
        /\ Contains(bv_ret, DryRunFlags) <=> dry_run

\* C4 (amended): the returned string ends with rel_type as its last token;
\* it contains "--new-version <v>" iff a non-empty version was supplied (None
\* and the empty string both add nothing); and, for a version that does not
\* itself contain the text "--dry-run --list", it contains "--dry-run --list"
\* iff dry-run was requested.
BvCorrect ==
    bv_pc = "returned" =>
        /\ bv_ret # <<>> /\ bv_ret[Len(bv_ret)] = rel_type
        /\ (~new_version.none /\ new_version.text # <<>>) =>
              Contains(bv_ret, <<"--new-version">> \o new_version.text)
        /\ (new_version.none \/ new_version.text = <<>>) =>
              "--new-version" \notin Range(bv_ret)
        /\ ~Contains(new_version.text, DryRunFlags) =>
              (Contains(bv_ret, DryRunFlags) <=> dry_run)

BvWitness ==
    /\ bv_pc = "returned"
    /\ new_version = Str(<<>>)
    /\ dry_run
    /\ bv_ret = <<"bumpversion", "--dry-run", "--list", rel_type>>

(***************************************************************************)
(* get_migration_file_modules(migration_file) (common.py 222-233).         *)
(* content["migration"]["versions"] is a sequence of mappings; a mapping   *)
(* is modelled by the keys it has on the path addons.upgrade and the       *)
(* sequence found there.                                                   *)
(***************************************************************************)
MaxVersions == 3

UpgradeLists ==
    {<<>>, <<"a">>, <<"a", "b">>, <<"b", "c">>, <<"c", "c">>}

VersionEntries ==
    {[has_addons |-> FALSE, has_upgrade |-> FALSE, upgrade |-> <<>>],
     [has_addons |-> TRUE, has_upgrade |-> FALSE, upgrade |-> <<>>]}
    \cup {[has_addons |-> TRUE, has_upgrade |-> TRUE, upgrade |-> u] :
             u \in UpgradeLists}

SetAssign(s, seq) == Range(seq)

\* modules.update(seq)
SetUpdate(s, seq) == s \cup Range(seq)

\* migration_version["addons"]["upgrade"] raises KeyError when a key is missing.
RaisesKeyError(mv) == ~mv.has_addons \/ ~mv.has_upgrade

Others_mf == <<vars_cd, vars_rp, vars_gd, vars_bv, vars_cc, vars_md, vars_td,
               vars_he, vars_pn>>

Init_mf ==
    /\ mf_pc = "call"
    /\ content \in UNION {[1..n -> VersionEntries] : n \in 0..MaxVersions}
    /\ version = 0
    /\ modules = {}
    /\ mf_exc = NoExc
    /\ Idle_cd /\ Idle_rp /\ Idle_gd /\ Idle_bv /\ Idle_cc /\ Idle_md
    /\ Idle_td /\ Idle_he /\ Idle_pn

\* content = yaml_load(stream); modules = set()
MfLoad ==
    /\ mf_pc = "call"
    /\ modules' = {}
    /\ version' = 1
    /\ mf_pc' = "loop"
    /\ UNCHANGED <<content, mf_exc>>
    /\ UNCHANGED Others_mf

\* One iteration of "for version in range(len(...))": the lookups and the
\* update inside try, "except KeyError: pass".
MfIter ==
    /\ mf_pc = "loop"
    /\ version <= Len(content)
    /\ modules' = IF RaisesKeyError(content[version])
                    THEN modules
                    ELSE SetUpdate(modules, content[version].upgrade)
    /\ version' = version + 1
    /\ UNCHANGED <<mf_pc, content, mf_exc>>
    /\ UNCHANGED Others_mf

\* return modules
MfReturn ==
    /\ mf_pc = "loop"
    /\ version > Len(content)
    /\ mf_pc' = "returned"
    /\ UNCHANGED <<content, version, modules, mf_exc>>
    /\ UNCHANGED Others_mf

Next_mf ==
    \/ MfLoad
    \/ MfIter
    \/ MfReturn

Spec_mf == Init_mf /\ [][Next_mf]_vars

\* C5: get_migration_file_modules returns exactly the union, over the
\* versions, of each version's addons.upgrade sequence when present; a
\* version lacking the addons key or the upgrade key contributes nothing and
\* raises no error; a module named by several versions appears once.
MfCorrect ==
    mf_pc = "returned" =>
        /\ mf_exc = NoExc
        /\ \A m \in {"a", "b", "c"} :
              m \in modules <=>
                 \E i \in 1..Len(content) :
                    /\ content[i].has_addons
                    /\ content[i].has_upgrade
                    /\ \E j \in 1..Len(content[i].upgrade) :
                          content[i].upgrade[j] = m
        /\ modules \subseteq {"a", "b", "c"}

MfWitness ==
    /\ mf_pc = "returned"
    /\ Len(content) = 3
    /\ content[1].upgrade = <<"a", "b">>
    /\ content[2].upgrade = <<"b", "c">>
    /\ ~content[3].has_addons
    /\ modules = {"a", "b", "c"}

(***************************************************************************)
(* cookiecutter_context() under functools.lru_cache (common.py 88-91).     *)
(* A loaded mapping is an object: cc_heap holds the content each object    *)
(* was loaded from, and an object is named by its index (0: no object).    *)
(***************************************************************************)
MaxCalls == 4

Parseable == {"ctx: A", "ctx: B", "ctx: C"}
FileStates == Parseable \cup {"<missing>", "<malformed>"}

CacheStore_Skip(id) == 0

\* lru_cache keeps the value a call returned; a call that raised is not kept.
CacheStore(id) == id

Others_cc == <<vars_cd, vars_rp, vars_gd, vars_bv, vars_mf, vars_md, vars_td,
               vars_he, vars_pn>>

Init_cc ==
    /\ cc_file \in FileStates
    /\ cc_cache = 0
    /\ cc_reads = 0
    /\ cc_calls = 0
    /\ cc_ret = 0
    /\ cc_first = 0
    /\ cc_heap = <<>>
    /\ Idle_cd /\ Idle_rp /\ Idle_gd /\ Idle_bv /\ Idle_mf /\ Idle_md
    /\ Idle_td /\ Idle_he /\ Idle_pn

\* The file on disk is changed, removed or corrupted between calls.
CcFileChange ==
    /\ \E c \in FileStates \ {cc_file} : cc_file' = c
    /\ UNCHANGED <<cc_cache, cc_reads, cc_calls, cc_ret, cc_first, cc_heap>>
    /\ UNCHANGED Others_cc

\* One call: a cache hit returns the kept object; a miss opens and parses the
\* file, and keeps the new object when that succeeded.  cc_ret = 0: the call
\* raised.  cc_first: the object the first successful call returned.
CcCall ==
    /\ cc_calls < MaxCalls
    /\ cc_calls' = cc_calls + 1
    /\ IF cc_cache # 0
         THEN /\ cc_ret' = cc_cache
              /\ UNCHANGED <<cc_cache, cc_reads, cc_heap, cc_first>>
         ELSE /\ cc_reads' = cc_reads + 1
              /\ IF cc_file \in Parseable
                   THEN /\ cc_heap' = Append(cc_heap, cc_file)
                        /\ cc_cache' = CacheStore(Len(cc_heap) + 1)
                        /\ cc_ret' = Len(cc_heap) + 1
                        /\ cc_first' = IF cc_first = 0
                                         THEN Len(cc_heap) + 1
                                         ELSE cc_first
                   ELSE /\ cc_ret' = 0
                        /\ UNCHANGED <<cc_cache, cc_heap, cc_first>>
    /\ UNCHANGED cc_file
    /\ UNCHANGED Others_cc

Next_cc ==
    \/ CcFileChange
    \/ CcCall

Spec_cc == Init_cc /\ [][Next_cc]_vars

\* C6: after the first successful load, every later call returns the very
\* mapping the first one returned, whatever happens to the file on disk, and
\* the file is not read again.
CcCorrect ==
    /\ [](cc_first # 0 => (cc_ret = cc_first /\ Len(cc_heap) = 1))
    /\ [][cc_first # 0 => cc_reads' = cc_reads]_vars

CcWitness ==
    /\ cc_calls = MaxCalls
    /\ cc_reads = 2
    /\ cc_first = 1
    /\ cc_ret = 1
    /\ cc_heap[1] # cc_file

(***************************************************************************)
(* make_dir(path_dir) (common.py 209-219).                                 *)
(* The file system is the chain of path components below a writable base   *)
(* directory: md_fs[i] is the entry at depth i, and path_dir the depth of   *)
(* the path handed to make_dir.                                            *)
(***************************************************************************)
MaxPathLen == 3
MaxMakeDirCalls == 2

Absent == [kind |-> "absent", writable |-> FALSE]
File == [kind |-> "file", writable |-> FALSE]
Dir(w) == [kind |-> "dir", writable |-> w]
Entries == {Absent, File, Dir(TRUE), Dir(FALSE)}

\* Under a missing entry or a file there is nothing.
ValidFs(fs) ==
    \A i \in 2..Len(fs) : fs[i - 1].kind # "dir" => fs[i] = Absent

ParentWritable(fs, d) == IF d = 1 THEN TRUE ELSE fs[d - 1] = Dir(TRUE)
ParentIsFile(fs, d) == d > 1 /\ fs[d - 1].kind = "file"
ParentExists(fs, d) == d = 1 \/ fs[d - 1].kind # "absent"

\* os.mkdir(name)
mkdir(fs, d) ==
    IF fs[d].kind # "absent" THEN [fs |-> fs, err |-> "FileExistsError"]
    ELSE IF ParentIsFile(fs, d) THEN [fs |-> fs, err |-> "NotADirectoryError"]
    ELSE IF ~ParentExists(fs, d) THEN [fs |-> fs, err |-> "FileNotFoundError"]
    ELSE IF ~ParentWritable(fs, d) THEN [fs |-> fs, err |-> "PermissionError"]
    ELSE [fs |-> [fs EXCEPT ![d] = Dir(TRUE)], err |-> NoExc]

RECURSIVE makedirs(_, _)
\* os.makedirs(name): create the missing parents first (an error other than
\* "exists" of that step propagates), then the directory itself.
makedirs(fs, d) ==
    IF d > 1 /\ fs[d - 1].kind = "absent"
      THEN LET head == makedirs(fs, d - 1)
           IN  IF head.err \notin {NoExc, "FileExistsError"}
                 THEN head
                 ELSE mkdir(head.fs, d)
      ELSE mkdir(fs, d)

path_exists(fs, d) == fs[d].kind # "absent"

\* os.path.isdir(path_dir)
isdir(fs, d) == fs[d].kind = "dir"

Others_md == <<vars_cd, vars_rp, vars_gd, vars_bv, vars_mf, vars_cc, vars_td,
               vars_he, vars_pn>>

Init_md ==
    /\ md_fs \in [1..MaxPathLen -> Entries]
    /\ ValidFs(md_fs)
    /\ path_dir \in 1..MaxPathLen
    /\ md_pc = "ready"
    /\ md_results = <<>>
    /\ Idle_cd /\ Idle_rp /\ Idle_gd /\ Idle_bv /\ Idle_mf /\ Idle_cc
    /\ Idle_td /\ Idle_he /\ Idle_pn

\* One call of make_dir(path_dir): try os.makedirs; on OSError, exit_msg
\* (exit status 1) unless the path is a directory.
MakeDir ==
    /\ md_pc = "ready"
    /\ Len(md_results) < MaxMakeDirCalls
    /\ LET r == makedirs(md_fs, path_dir)
       IN  /\ md_fs' = r.fs
           /\ IF r.err = NoExc \/ isdir(r.fs, path_dir)
                THEN /\ md_results' = Append(md_results,
                                             [ret |-> "ok", oserror |-> r.err])
                     /\ md_pc' = "ready"
                ELSE /\ md_results' = Append(md_results,
                                             [ret |-> "exit1", oserror |-> r.err])
                     /\ md_pc' = "aborted"
    /\ UNCHANGED path_dir
    /\ UNCHANGED Others_md

Next_md ==
    \/ MakeDir

Spec_md == Init_md /\ [][Next_md]_vars

\* C7: make_dir returns normally exactly when the path is a directory after
\* the creation attempt and aborts with exit status 1 when it exists as a
\* non-directory or could not be created; a second call on the same path
\* after a successful one succeeds too.
MdCorrect ==
    /\ md_results # <<>> =>
          /\ md_results[Len(md_results)].ret = "ok" <=>
                md_fs[path_dir].kind = "dir"
          /\ md_results[Len(md_results)].ret = "exit1" <=> md_pc = "aborted"
          /\ md_results[Len(md_results)].ret = "exit1" =>
                md_results[Len(md_results)].oserror # NoExc
    /\ \A i \in 1..Len(md_results) :
          (i > 1 /\ md_results[i - 1].ret = "ok") => md_results[i].ret = "ok"
    /\ ValidFs(md_fs)

MdWitness ==
    /\ Len(md_results) = 2
    /\ md_results[1] = [ret |-> "ok", oserror |-> NoExc]
    /\ md_results[2] = [ret |-> "ok", oserror |-> "FileExistsError"]
    /\ path_dir = MaxPathLen

(***************************************************************************)
(* tempdir(): scoped temporary directory (common.py 134-145).              *)
(* td_fs is what is found at the temporary directory's name: nothing, a    *)
(* directory with its entries (locked: the entries cannot be unlinked), or *)
(* a regular file put there by the body.                                   *)
(***************************************************************************)
TdFiles == {"f1", "f2", "f3"}
BodyErrors == {"BodyValueError", "BodyFileNotFoundError", "BodyPermissionError"}
RemovalErrors == {"EACCES", "ENOTDIR"}

\* shutil.rmtree(name): what is left, and the errno of the OSError it raised
\* ("OK": none).
rmtree(fs) ==
    IF fs.kind = "absent" THEN [fs |-> fs, errno |-> "ENOENT"]
    ELSE IF fs.kind = "file" THEN [fs |-> fs, errno |-> "ENOTDIR"]
    ELSE IF fs.locked /\ fs.entries # {} THEN [fs |-> fs, errno |-> "EACCES"]
    ELSE [fs |-> [kind |-> "absent", entries |-> {}, locked |-> FALSE],
          errno |-> "OK"]

Reraise_Never(errno) == FALSE

\* except OSError as e: if e.errno != errno.ENOENT: raise
Reraise(errno) == errno # "OK" /\ errno # "ENOENT"

Others_td == <<vars_cd, vars_rp, vars_gd, vars_bv, vars_mf, vars_cc, vars_md,
               vars_he, vars_pn>>

Init_td ==
    /\ td_pc = "call"
    /\ td_fs = [kind |-> "absent", entries |-> {}, locked |-> FALSE]
    /\ td_body_exc = NoExc
    /\ td_raised = NoExc
    /\ td_rmtree = <<>>
    /\ Idle_cd /\ Idle_rp /\ Idle_gd /\ Idle_bv /\ Idle_mf /\ Idle_cc
    /\ Idle_md /\ Idle_he /\ Idle_pn

\* name = tempfile.mkdtemp(); try: yield name
TdEnter ==
    /\ td_pc = "call"
    /\ td_fs' = [kind |-> "dir", entries |-> {}, locked |-> FALSE]
    /\ td_pc' = "body"
    /\ UNCHANGED <<td_body_exc, td_raised, td_rmtree>>
    /\ UNCHANGED Others_td

\* The body is arbitrary code working on the directory.
TdBodyCreateFile ==
    /\ td_pc = "body"
    /\ td_fs.kind = "dir"
    /\ ~td_fs.locked
    /\ \E f \in TdFiles \ td_fs.entries :
          td_fs' = [td_fs EXCEPT !.entries = @ \cup {f}]
    /\ UNCHANGED <<td_pc, td_body_exc, td_raised, td_rmtree>>
    /\ UNCHANGED Others_td

TdBodyChmod ==
    /\ td_pc = "body"
    /\ td_fs.kind = "dir"
    /\ td_fs' = [td_fs EXCEPT !.locked = ~@]
    /\ UNCHANGED <<td_pc, td_body_exc, td_raised, td_rmtree>>
    /\ UNCHANGED Others_td

TdBodyRemove ==
    /\ td_pc = "body"
    /\ td_fs.kind # "absent"
    /\ rmtree(td_fs).errno = "OK" \/ td_fs.kind = "file"
    /\ td_fs' = [kind |-> "absent", entries |-> {}, locked |-> FALSE]
    /\ UNCHANGED <<td_pc, td_body_exc, td_raised, td_rmtree>>
    /\ UNCHANGED Others_td

TdBodyPutFile ==
    /\ td_pc = "body"
    /\ td_fs.kind = "absent"
    /\ td_fs' = [kind |-> "file", entries |-> {}, locked |-> FALSE]
    /\ UNCHANGED <<td_pc, td_body_exc, td_raised, td_rmtree>>
    /\ UNCHANGED Others_td

TdBodyReturn ==
    /\ td_pc = "body"
    /\ td_pc' = "finally"
    /\ td_body_exc' = NoExc
    /\ UNCHANGED <<td_fs, td_raised, td_rmtree>>
    /\ UNCHANGED Others_td

TdBodyRaise ==
    /\ td_pc = "body"
    /\ td_pc' = "finally"
    /\ \E e \in BodyErrors : td_body_exc' = e
    /\ UNCHANGED <<td_fs, td_raised, td_rmtree>>
    /\ UNCHANGED Others_td

\* finally: try: shutil.rmtree(name) / except OSError as e: ... raise
\* When the handler does not re-raise, the body's exception (if any) goes on.
TdFinally ==
    /\ td_pc = "finally"
    /\ LET r == rmtree(td_fs)
       IN  /\ td_fs' = r.fs
           /\ td_rmtree' = Append(td_rmtree, r.errno)
           /\ td_raised' = IF Reraise(r.errno) THEN r.errno ELSE td_body_exc
    /\ td_pc' = "exited"
    /\ UNCHANGED td_body_exc
    /\ UNCHANGED Others_td

Next_td ==
    \/ TdEnter
    \/ TdBodyCreateFile
    \/ TdBodyChmod
    \/ TdBodyRemove
    \/ TdBodyPutFile
    \/ TdBodyReturn
    \/ TdBodyRaise
    \/ TdFinally

Spec_td == Init_td /\ [][Next_td]_vars

\* C8: on every exit of the scope, by return or by an error of the body, one
\* recursive removal of the directory is attempted; a removal that fails with
\* "not found" counts as success and raises nothing of its own, any other
\* removal error is raised to the caller; and after an exit that raises no
\* removal error the directory does not exist.
TdCorrect ==
    /\ td_pc \in {"call", "body", "finally"} => td_rmtree = <<>>
    /\ td_pc = "exited" =>
          /\ Len(td_rmtree) = 1
          /\ td_rmtree[1] \in {"OK", "ENOENT"} =>
                (td_raised = td_body_exc /\ td_fs.kind = "absent")
          /\ td_rmtree[1] \notin {"OK", "ENOENT"} =>
                (td_raised = td_rmtree[1] /\ td_raised \in RemovalErrors)
          /\ td_raised \notin RemovalErrors => td_fs.kind = "absent"

TdWitness ==
    /\ td_pc = "exited"
    /\ td_rmtree = <<"ENOENT">>
    /\ td_body_exc = "BodyFileNotFoundError"
    /\ td_raised = "BodyFileNotFoundError"

(***************************************************************************)
(* has_exec(name) (common.py 236-243).                                     *)
(* he_spawn: what Popen([name]) does, the exit status of the spawned       *)
(* process or the errno of the OSError; he_devnull: what open(os.devnull)  *)
(* does; he_os_errno: whether the running Python's os module has the       *)
(* attribute errno (it was removed in Python 3.7).                         *)
(***************************************************************************)
Spawned == {"exit 0", "exit 1", "exit 127"}
SpawnErrnos == {"ENOENT", "EACCES", "ENOEXEC", "ENOTDIR", "ENOMEM"}
DevnullOutcomes == {"ok", "EMFILE", "ENOENT"}

Others_he == <<vars_cd, vars_rp, vars_gd, vars_bv, vars_mf, vars_cc, vars_md,
               vars_td, vars_pn>>

Init_he ==
    /\ he_pc = "call"
    /\ he_spawn \in Spawned \cup SpawnErrnos
    /\ he_devnull \in DevnullOutcomes
    /\ he_os_errno \in BOOLEAN
    /\ he_err = NoExc
    /\ he_ret = None
    /\ he_raised = NoExc
    /\ Idle_cd /\ Idle_rp /\ Idle_gd /\ Idle_bv /\ Idle_mf /\ Idle_cc
    /\ Idle_md /\ Idle_td /\ Idle_pn

\* try: devnull = open(os.devnull, "w")
HeOpenDevnull ==
    /\ he_pc = "call"
    /\ IF he_devnull = "ok"
         THEN /\ he_pc' = "popen"
              /\ he_err' = he_err
         ELSE /\ he_pc' = "except"
              /\ he_err' = he_devnull
    /\ UNCHANGED <<he_spawn, he_devnull, he_os_errno, he_ret, he_raised>>
    /\ UNCHANGED Others_he

\* Popen([name], stdout=devnull, stderr=devnull)
HePopen ==
    /\ he_pc = "popen"
    /\ IF he_spawn \in Spawned
         THEN /\ he_pc' = "communicate"
              /\ he_err' = he_err
         ELSE /\ he_pc' = "except"
              /\ he_err' = he_spawn
    /\ UNCHANGED <<he_spawn, he_devnull, he_os_errno, he_ret, he_raised>>
    /\ UNCHANGED Others_he

\* .communicate(): waits for the process; its exit status is not looked at.
HeCommunicate ==
    /\ he_pc = "communicate"
    /\ he_pc' = "return"
    /\ UNCHANGED <<he_spawn, he_devnull, he_os_errno, he_err, he_ret, he_raised>>
    /\ UNCHANGED Others_he

\* except OSError as err: if err.errno == os.errno.ENOENT: return False
\* Evaluating os.errno raises AttributeError where os has no such attribute;
\* an errno other than ENOENT falls through to "return True".
HeExcept ==
    /\ he_pc = "except"
    /\ IF ~he_os_errno
         THEN /\ he_raised' = "AttributeError"
              /\ he_pc' = "raised"
              /\ he_ret' = he_ret
         ELSE IF he_err = "ENOENT"
                THEN /\ he_ret' = "False"
                     /\ he_pc' = "returned"
                     /\ he_raised' = he_raised
                ELSE /\ he_pc' = "return"
                     /\ UNCHANGED <<he_ret, he_raised>>
    /\ UNCHANGED <<he_spawn, he_devnull, he_os_errno, he_err>>
    /\ UNCHANGED Others_he

\* return True
HeReturnTrue ==
    /\ he_pc = "return"
    /\ he_ret' = "True"
    /\ he_pc' = "returned"
    /\ UNCHANGED <<he_spawn, he_devnull, he_os_errno, he_err, he_raised>>
    /\ UNCHANGED Others_he

Next_he ==
    \/ HeOpenDevnull
    \/ HePopen
    \/ HeCommunicate
    \/ HeExcept
    \/ HeReturnTrue

Spec_he == Init_he /\ [][Next_he]_vars

\* C9: has_exec returns True exactly when the process could be spawned,
\* whatever its exit code, and False for every spawn failure, whatever the
\* errno of the failure.
HeAsStated ==
    (he_pc \in {"returned", "raised"} /\ he_devnull = "ok") =>
        /\ he_pc = "returned"
        /\ he_ret = "True" <=> he_spawn \in Spawned
        /\ he_ret = "False" <=> he_spawn \in SpawnErrnos

(***************************************************************************)
(* parse_bumpversion_cfg / parse_new_version (release.py 11-23).           *)
(* The text is the sequence of its lines; a line is a section header       *)
(* "[name]" or an option "key = value".  One possible value holds the text *)
(* "[bumpversion]" inside it, which Python's "header in ini_content" finds *)
(* as well as a header line.                                               *)
(***************************************************************************)
MaxLines == 3

Section(n) == [kind |-> "section", name |-> n, val |-> ""]
Option(k, v) == [kind |-> "option", name |-> k, val |-> v]

HeaderLine == Section("bumpversion")
ValueWithHeaderText == "[bumpversion] release"

Lines ==
    {HeaderLine, Section("bumpversion:file:setup.py"),
     Option("new_version", "1.2.3"), Option("new_version", "2.0.0"),
     Option("current_version", "1.2.2"),
     Option("message", "Bump version"), Option("message", ValueWithHeaderText)}

\* header in ini_content: a substring test on the whole text.
HeaderIn(text) ==
    \E i \in 1..Len(text) :
        \/ text[i] = HeaderLine
        \/ text[i].kind = "option" /\ text[i].val = ValueWithHeaderText

NeedsHeader_Always(text) == TRUE

\* if header not in ini_content
NeedsHeader(text) == ~HeaderIn(text)

\* ini_content = header + "\n" + ini_content
InsertHeader(text) == IF NeedsHeader(text) THEN <<HeaderLine>> \o text ELSE text

EmptyConfig == [sects |-> {}, opts |-> {}, cur |-> "", err |-> NoExc]

\* configparser (strict): one line read into the parser state.
ReadLine(c, line) ==
    IF c.err # NoExc THEN c
    ELSE IF line.kind = "section"
      THEN IF line.name \in c.sects
             THEN [c EXCEPT !.err = "DuplicateSectionError"]
             ELSE [c EXCEPT !.sects = @ \cup {line.name}, !.cur = line.name]
      ELSE IF c.cur = ""
             THEN [c EXCEPT !.err = "MissingSectionHeaderError"]
             ELSE IF \E o \in c.opts : o[1] = c.cur /\ o[2] = line.name
                    THEN [c EXCEPT !.err = "DuplicateOptionError"]
                    ELSE [c EXCEPT !.opts = @ \cup {<<c.cur, line.name, line.val>>}]

RECURSIVE ReadFrom(_, _)
ReadFrom(c, text) ==
    IF text = <<>> THEN c ELSE ReadFrom(ReadLine(c, Head(text)), Tail(text))

\* config.read_string(ini_content)
read_string(text) == ReadFrom(EmptyConfig, text)

\* cfg.get("bumpversion", "new_version")
ConfigGet(c, sect, key) ==
    IF sect \notin c.sects THEN [ret |-> None, exc |-> "NoSectionError"]
    ELSE IF ~\E o \in c.opts : o[1] = sect /\ o[2] = key
           THEN [ret |-> None, exc |-> "NoOptionError"]
           ELSE [ret |-> (CHOOSE o \in c.opts : o[1] = sect /\ o[2] = key)[3],
                 exc |-> NoExc]

\* parse_new_version(cfg_content), as one function.
parse_new_version(text) ==
    LET c == read_string(InsertHeader(text))
    IN  IF c.err # NoExc
          THEN [ret |-> None, exc |-> c.err]
          ELSE ConfigGet(c, "bumpversion", "new_version")

Others_pn == <<vars_cd, vars_rp, vars_gd, vars_bv, vars_mf, vars_cc, vars_md,
               vars_td, vars_he>>

Init_pn ==
    /\ pn_pc = "call"
    /\ cfg_content \in UNION {[1..n -> Lines] : n \in 0..MaxLines}
    /\ ini_content = <<>>
    /\ config = EmptyConfig
    /\ pn_ret = None
    /\ pn_exc = NoExc
    /\ Idle_cd /\ Idle_rp /\ Idle_gd /\ Idle_bv /\ Idle_mf /\ Idle_cc
    /\ Idle_md /\ Idle_td /\ Idle_he

\* parse_bumpversion_cfg: the header is put in front when it is not found.
PnInsertHeader ==
    /\ pn_pc = "call"
    /\ ini_content' = InsertHeader(cfg_content)
    /\ pn_pc' = "read_string"
    /\ UNCHANGED <<cfg_content, config, pn_ret, pn_exc>>
    /\ UNCHANGED Others_pn

\* config.read_string(ini_content); return config
PnReadString ==
    /\ pn_pc = "read_string"
    /\ config' = read_string(ini_content)
    /\ IF config'.err # NoExc
         THEN /\ pn_exc' = config'.err
              /\ pn_pc' = "raised"
         ELSE /\ pn_exc' = pn_exc
              /\ pn_pc' = "get"
    /\ UNCHANGED <<cfg_content, ini_content, pn_ret>>
    /\ UNCHANGED Others_pn

\* return cfg.get("bumpversion", "new_version")
PnGet ==
    /\ pn_pc = "get"
    /\ LET r == ConfigGet(config, "bumpversion", "new_version")
       IN  /\ pn_ret' = r.ret
           /\ pn_exc' = r.exc
           /\ pn_pc' = IF r.exc = NoExc THEN "returned" ELSE "raised"
    /\ UNCHANGED <<cfg_content, ini_content, config>>
    /\ UNCHANGED Others_pn

Next_pn ==
    \/ PnInsertHeader
    \/ PnReadString
    \/ PnGet

Spec_pn == Init_pn /\ [][Next_pn]_vars

PnDone == pn_pc \in {"returned", "raised"}

\* The values v for which the text has a line "new_version = v".
NewVersionsIn(text) ==
    {text[i].val : i \in {j \in 1..Len(text) :
                            text[j].kind = "option" /\ text[j].name = "new_version"}}

\* The text "[bumpversion]" is a line of the text.
HasHeaderLine(text) == \E i \in 1..Len(text) : text[i] = HeaderLine

\* C10 (as stated): for any output whose key/value lines include
\* new_version = v, parse_new_version returns v, with the header line present
\* or absent, and putting the header in front of the output never changes the
\* result.
PnAsStated ==
    (PnDone /\ NewVersionsIn(cfg_content) # {}) =>
        /\ \A v \in NewVersionsIn(cfg_content) :
              pn_pc = "returned" /\ pn_ret = v
        /\ parse_new_version(<<HeaderLine>> \o cfg_content)
              = [ret |-> pn_ret, exc |-> pn_exc]

\* Plain dry-run output: option lines with distinct keys, none of whose values
\* holds the text "[bumpversion]", with the header as first line or without it.
PlainOutput(text) ==
    /\ \A i \in 1..Len(text) :
          /\ text[i].kind = "section" => (i = 1 /\ text[i] = HeaderLine)
          /\ text[i].kind = "option" => text[i].val # ValueWithHeaderText
    /\ \A i, j \in 1..Len(text) :
          (i # j /\ text[i].kind = "option" /\ text[j].kind = "option")
             => text[i].name # text[j].name

\* C10 (amended): for an output that is plain (option lines with distinct
\* keys, the text "[bumpversion]" nowhere but possibly as the first line) and
\* has the line new_version = v, parse_new_version returns v, with the header
\* line present or absent; the header is inserted exactly when it is absent,
\* and putting the header in front of a plain output that lacks it does not
\* change the result.
PnCorrect ==
    /\ (pn_pc # "call" /\ PlainOutput(cfg_content)) =>
          /\ ini_content[1] = HeaderLine
          /\ Len(ini_content) =
                Len(cfg_content) + (IF HasHeaderLine(cfg_content) THEN 0 ELSE 1)
    /\ (PnDone /\ PlainOutput(cfg_content)) =>
          /\ \A v \in NewVersionsIn(cfg_content) :
                pn_pc = "returned" /\ pn_ret = v
          /\ ~HasHeaderLine(cfg_content) =>
                parse_new_version(<<HeaderLine>> \o cfg_content)
                   = [ret |-> pn_ret, exc |-> pn_exc]

PnWitness ==
    /\ pn_pc = "returned"
    /\ cfg_content = <<Option("current_version", "1.2.2"),
                       Option("new_version", "1.2.3")>>
    /\ ini_content = <<HeaderLine>> \o cfg_content
    /\ pn_ret = "1.2.3"

====
